---- MODULE Spec2Model ----
(***************************************************************************)
(* nose_mongoengine.MongoEnginePlugin: the lifecycle of one mongod server  *)
(* process driven through configure (start), stopContext (scope boundary)  *)
(* and finalize (stop).  Every handler is followed statement by statement: *)
(* pc names the statement the running handler is at, and "idle" is the     *)
(* plugin between two calls.  The operating system (processes, temporary   *)
(* directories, os.environ) and the mongod servers are part of the state.  *)
(***************************************************************************)
EXTENDS Naturals, Integers, Sequences, FiniteSets, TLC

VARIABLES
    self,          \* the plugin's attributes (__init__, lines 60-68)
    attrs,         \* attributes configure adds later: their names, and the two flags
    PATH,          \* os.environ["PATH"], split at ":"
    environ,       \* os.environ restricted to the two published keys
    procs,         \* processes spawned so far: pid -> [state, port, dbpath, stdout]
    dirs,          \* directories made by tempfile.mkdtemp: id -> "exists" | "removed"
    colls,         \* collections held by each server: pid -> set of <<database, collection>>
    session,       \* the mongoengine connection registered by connect()
    cleanupConns,  \* pymongo Connection objects opened by stopContext and not closed
    pc,            \* the statement the running handler is at
    local,         \* stopContext's locals: the block it is in, its server, the names left
    result,        \* the running or last call: [op, kind, at]
    hist,          \* what the running or last call did (history)
    runActive      \* history: a start has completed and no stop has begun since

vars == <<self, attrs, PATH, environ, procs, dirs, colls, session, cleanupConns,
          pc, local, result, hist, runActive>>

-----------------------------------------------------------------------------
(* Bounds of the model. *)

\* configure calls that may create a data directory
MaxStarts == 1

\* cleanup connections that may be left open before stopContext is no longer called
MaxConns == 1

\* size of the alphabet the database name is sampled from (36 in the source)
CharSetSize == 1

\* length of the database name (10 in the source)
NameLen == 1

\* configure calls that may create a data directory, where start is called again
MaxRestarts == 2

\* size of the alphabet and length of the name, where the generator is taken alone
SampleChars == 4

SampleLen == 3

-----------------------------------------------------------------------------
(* Values. *)

\* None, for an attribute that holds a path or a name (a tuple in the model).
None == << >>

\* None, for an attribute that holds a port, a directory or a process.
NoneInt == 0

\* A key os.environ does not hold.
Absent == << >>

KEY_ENDPOINT == "TEST_MONGODB"

KEY_DATABASE == "TEST_MONGODB_DATABASE"

EnvKeys == {KEY_ENDPOINT, KEY_DATABASE}

\* The file system the binary is looked up in: the directories holding a mongod.
BinDirs == {"/b", "/c"}

\* The values PATH takes in the model: empty, no mongod, and a mongod in the
\* second and in the third directory.
PathChoices == {<< >>, <<"/a">>, <<"/a", "/b", "/c">>}

\* --mongoengine-mongodb-bin: not given, an existing file, a missing file.
BinOptions == {None, <<"/opt", "mongod">>, <<"/missing", "mongod">>}

ExistingFiles == {<<"/opt", "mongod">>} \cup {<<d, "mongod">> : d \in BinDirs}

\* --mongoengine-mongodb-logpath: the default and a path that cannot be opened.
LogOptions == {"/dev/null", "/nodir/mongo.log"}

WritableFiles == {"/dev/null"}

\* Ports get_open_port may be handed by the system.
AutoPorts == 1..MaxStarts

\* An explicit --mongoengine-mongodb-port, outside the range the system hands out.
UserPort == MaxStarts + 2

PortOptions == {0, UserPort}

\* The options object configure is given.  It is immutable and configure reads
\* each of its values in one statement only, so a value is drawn where it is read.
Options ==
    [mongoengine : BOOLEAN,
     mongodb_bin : BinOptions]

\* inspect.ismodule(context) / inspect.isclass(context)
Contexts == {"module", "class"}

CollNames == {"a", "b", "system.indexes"}

IsSystem(col) == col = "system.indexes"

char_set == 1..CharSetSize

\* random.sample(population, k): k elements drawn without replacement, in order.
random_sample(population, k) ==
    {s \in [1..k -> population] : \A i, j \in 1..k : i # j => s[i] # s[j]}

-----------------------------------------------------------------------------
(* Helpers. *)

\* for p in PATH: if os.path.exists(join(p, "mongod")): return it; else None
RECURSIVE scan_path(_)
scan_path(path) ==
    IF path = << >> THEN None
    ELSE IF <<Head(path), "mongod">> \in ExistingFiles THEN <<Head(path), "mongod">>
    ELSE scan_path(Tail(path))

Alive(p) == procs[p].state \in {"starting", "ready", "terminating"}

\* The servers accepting connections on a port.
Listening(port) == {p \in DOMAIN procs : procs[p].state = "ready" /\ procs[p].port = port}

Published == \A k \in EnvKeys : environ[k] # Absent

NoHist ==
    [after |-> "other", context |-> "none",
     mongoengine |-> FALSE, mongodb_bin |-> None, spawned |-> FALSE,
     wasRunning |-> FALSE, crashed |-> FALSE, attempted |-> FALSE, opened |-> FALSE,
     enumerated |-> {}, tried |-> {}, denied |-> {}, steps |-> << >>]

\* What a stop records of the call before it: a start that completed, a stop, or
\* anything else.
Ended(r) ==
    IF r.op = "configure" /\ r.kind = "returned" /\ r.at = "cfg_connect" THEN "started"
    ELSE IF r.op = "finalize" THEN "stopped"
    ELSE "other"

NoLocal == [block |-> "none", server |-> NoneInt, todo |-> {}]

\* The handler op has been entered and goes on at statement `next`.
Goto(op, next) ==
    /\ pc' = next
    /\ result' = [op |-> op, kind |-> "pending", at |-> "none"]

\* The handler op returns at statement `at`.
Return(op, at) ==
    /\ pc' = "idle"
    /\ result' = [op |-> op, kind |-> "returned", at |-> at]

\* The handler op raises `kind` at statement `at`: the call ends there.
Raise(op, kind, at) ==
    /\ pc' = "idle"
    /\ result' = [op |-> op, kind |-> kind, at |-> at]

-----------------------------------------------------------------------------
(* Construction. *)

Init ==
    /\ self = [mongodb_bin |-> None, db_port |-> NoneInt, db_path |-> NoneInt,
               process |-> NoneInt, _running |-> FALSE, _enabled |-> FALSE,
               enabled |-> FALSE, mongo_database |-> None]
    /\ attrs = [names |-> {}, clear_after_module |-> FALSE, clear_after_class |-> FALSE]
    /\ PATH \in PathChoices
    /\ environ = [k \in EnvKeys |-> Absent]
    /\ procs = << >>
    /\ dirs = << >>
    /\ colls = << >>
    /\ session = None
    /\ cleanupConns = 0
    /\ pc = "idle"
    /\ local = NoLocal
    /\ result = [op |-> "none", kind |-> "none", at |-> "none"]
    /\ hist = NoHist
    /\ runActive = FALSE

-----------------------------------------------------------------------------
(* The environment: the servers and the test code. *)

\* A starting mongod begins to accept connections, unless its port is taken.
ServerReady(p) ==
    /\ procs[p].state = "starting"
    /\ Listening(procs[p].port) = {}
    /\ procs' = [procs EXCEPT ![p].state = "ready"]
    /\ UNCHANGED <<self, attrs, PATH, environ, dirs, colls, session, cleanupConns,
                   pc, local, result, hist, runActive>>

\* A mongod exits on its own; nobody has waited for it yet (a zombie).
Crash(p) ==
    /\ procs[p].state \in {"starting", "ready"}
    /\ procs' = [procs EXCEPT ![p].state = "crashed", ![p].port = NoneInt]
    /\ colls' = [colls EXCEPT ![p] = {}]
    /\ UNCHANGED <<self, attrs, PATH, environ, dirs, session, cleanupConns,
                   pc, local, result, hist, runActive>>

\* A signalled mongod exits.
ProcExit(p) ==
    /\ procs[p].state = "terminating"
    /\ procs' = [procs EXCEPT ![p].state = "exited", ![p].port = NoneInt]
    /\ colls' = [colls EXCEPT ![p] = {}]
    /\ UNCHANGED <<self, attrs, PATH, environ, dirs, session, cleanupConns,
                   pc, local, result, hist, runActive>>

\* Lines 212-216: the child's standard output and error are one pipe
\* (stdout=PIPE, stderr=STDOUT), and no statement of the plugin reads
\* self.process.stdout.  A child that goes on writing fills the pipe's buffer, and
\* its next write blocks.
ServerLog(p) ==
    /\ procs[p].state \in {"starting", "ready"}
    /\ procs[p].stdout = "PIPE"
    /\ procs' = [procs EXCEPT ![p].stdout = "PIPE_FULL"]
    /\ UNCHANGED <<self, attrs, PATH, environ, dirs, colls, session, cleanupConns,
                   pc, local, result, hist, runActive>>

\* Between two hooks, test code reads the published keys and writes collections
\* into that database of the server at that endpoint.
TestCode(cs) ==
    /\ pc = "idle"
    /\ Published
    /\ \E p \in Listening(environ[KEY_ENDPOINT][2]) :
          LET db == environ[KEY_DATABASE]
              others == {x \in colls[p] : x[1] # db}
              mine == {<<db, c>> : c \in cs}
          IN  /\ colls[p] # others \cup mine
              /\ colls' = [colls EXCEPT ![p] = others \cup mine]
    /\ UNCHANGED <<self, attrs, PATH, environ, procs, dirs, session, cleanupConns,
                   pc, local, result, hist, runActive>>

-----------------------------------------------------------------------------
(* configure(options, conf): start. *)

\* Lines 130-150: the enabling test and the resolution of the binary.
Resolve(o) ==
    /\ pc = "idle"
    /\ hist' = [NoHist EXCEPT !.mongoengine = o.mongoengine, !.mongodb_bin = o.mongodb_bin]
    /\ IF ~o.mongoengine \/ o.mongodb_bin # None
       THEN \* line 131: return
            /\ Return("configure", "cfg_resolve")
            /\ UNCHANGED self
       ELSE IF o.mongodb_bin = None
       THEN LET found == scan_path(PATH)
            IN  IF found = None
                THEN \* line 136
                     /\ Raise("configure", "AssertionError", "cfg_resolve")
                     /\ self' = [self EXCEPT !.mongodb_bin = None]
                ELSE /\ Goto("configure", "cfg_log")
                     /\ self' = [self EXCEPT !.mongodb_bin = found,
                                             !._enabled = TRUE, !.enabled = TRUE]
       ELSE IF o.mongodb_bin \notin ExistingFiles
       THEN \* line 144
            /\ Raise("configure", "AssertionError", "cfg_resolve")
            /\ self' = [self EXCEPT !.mongodb_bin = o.mongodb_bin]
       ELSE /\ Goto("configure", "cfg_log")
            /\ self' = [self EXCEPT !.mongodb_bin = o.mongodb_bin,
                                    !._enabled = TRUE, !.enabled = TRUE]
    /\ UNCHANGED <<attrs, PATH, environ, procs, dirs, colls, session, cleanupConns,
                   local, runActive>>

\* Faulty variant: the run is marked running before the log path is opened.
ConfigureLog_late ==
    /\ pc = "cfg_log"
    /\ attrs' = [attrs EXCEPT !.names = @ \cup {"db_log_path"}]
    /\ self' = [self EXCEPT !._running = TRUE]
    /\ \E mongodb_logpath \in LogOptions :
          IF mongodb_logpath \in WritableFiles
          THEN Goto("configure", "cfg_port")
          ELSE Raise("configure", "AssertionError", "cfg_log")
    /\ UNCHANGED <<PATH, environ, procs, dirs, colls, session, cleanupConns,
                   local, hist, runActive>>

\* configure is entered, while the model's bound on starts allows.
ConfigureResolve(o) ==
    /\ Len(dirs) < MaxStarts
    /\ Resolve(o)

\* Lines 152-158: the log path is expanded and opened for writing.
ConfigureLog ==
    /\ pc = "cfg_log"
    /\ attrs' = [attrs EXCEPT !.names = @ \cup {"db_log_path"}]
    /\ \E mongodb_logpath \in LogOptions :
          IF mongodb_logpath \in WritableFiles
          THEN Goto("configure", "cfg_port")
          ELSE Raise("configure", "AssertionError", "cfg_log")
    /\ UNCHANGED <<self, PATH, environ, procs, dirs, colls, session, cleanupConns,
                   local, hist, runActive>>

\* get_open_port (lines 43-52): the ports a bind to port 0 may be given, those no
\* live process holds.
get_open_port == {port \in AutoPorts : \A p \in DOMAIN procs : Alive(p) => procs[p].port # port}

\* Lines 164-168, after the port is known.
ConfigureFlags ==
    \E mongoengine_clear_after_module, mongoengine_clear_after_class \in BOOLEAN :
       attrs' = [attrs EXCEPT
                   !.names = @ \cup {"db_prealloc", "db_scripting",
                                     "clear_after_module", "clear_after_class"},
                   !.clear_after_module = mongoengine_clear_after_module,
                   !.clear_after_class = mongoengine_clear_after_class]

\* Lines 160-168: the port (allocated unless given) and the flags.
ConfigurePort ==
    /\ pc = "cfg_port"
    /\ \E mongodb_port \in PortOptions :
          \/ /\ mongodb_port = 0
             /\ \E port \in get_open_port : self' = [self EXCEPT !.db_port = port]
             /\ ConfigureFlags
             /\ Goto("configure", "cfg_name")
          \/ \* temp_sock.bind raises socket.error (line 48)
             /\ mongodb_port = 0
             /\ Raise("configure", "socket.error", "cfg_port")
             /\ UNCHANGED <<self, attrs>>
          \/ /\ mongodb_port # 0
             /\ self' = [self EXCEPT !.db_port = mongodb_port]
             /\ ConfigureFlags
             /\ Goto("configure", "cfg_name")
    /\ UNCHANGED <<PATH, environ, procs, dirs, colls, session, cleanupConns,
                   local, hist, runActive>>

\* Lines 170-172: the database name, random.sample(char_set, 10) joined.
ConfigureNameFrom(population, k) ==
    /\ pc = "cfg_name"
    /\ \E name \in random_sample(population, k) :
          self' = [self EXCEPT !.mongo_database = name]
    /\ Goto("configure", "cfg_mkdtemp")
    /\ UNCHANGED <<attrs, PATH, environ, procs, dirs, colls, session, cleanupConns,
                   local, hist, runActive>>

ConfigureName == ConfigureNameFrom(char_set, NameLen)

\* Lines 179-181: tempfile.mkdtemp makes the data directory, or raises.
ConfigureMkdtemp ==
    /\ pc = "cfg_mkdtemp"
    /\ \/ /\ dirs' = Append(dirs, "exists")
          /\ self' = [self EXCEPT !.db_path = Len(dirs) + 1]
          /\ Goto("configure", "cfg_spawn")
       \/ /\ Raise("configure", "OSError", "cfg_mkdtemp")
          /\ UNCHANGED <<self, dirs>>
    /\ UNCHANGED <<attrs, PATH, environ, procs, colls, session, cleanupConns,
                   local, hist, runActive>>

\* Lines 183-216: subprocess.Popen(args, stdout=PIPE, stderr=STDOUT), or it raises.
ConfigureSpawn ==
    /\ pc = "cfg_spawn"
    /\ \/ /\ procs' = Append(procs, [state |-> "starting", port |-> self.db_port,
                                     dbpath |-> self.db_path, stdout |-> "PIPE"])
          /\ colls' = Append(colls, {})
          /\ self' = [self EXCEPT !.process = Len(procs) + 1]
          /\ hist' = [hist EXCEPT !.spawned = TRUE]
          /\ Goto("configure", "cfg_publish")
       \/ /\ Raise("configure", "OSError", "cfg_spawn")
          /\ UNCHANGED <<self, procs, colls, hist>>
    /\ UNCHANGED <<attrs, PATH, environ, dirs, session, cleanupConns,
                   local, runActive>>

\* Lines 218-220: the run is marked running and its coordinates are published.
ConfigurePublish ==
    /\ pc = "cfg_publish"
    /\ self' = [self EXCEPT !._running = TRUE]
    /\ environ' = [environ EXCEPT ![KEY_ENDPOINT] = <<"localhost", self.db_port>>,
                                  ![KEY_DATABASE] = self.mongo_database]
    /\ Goto("configure", "cfg_sleep")
    /\ UNCHANGED <<attrs, PATH, procs, dirs, colls, session, cleanupConns,
                   local, hist, runActive>>

\* Line 223: time.sleep(0.3).
ConfigureSleep ==
    /\ pc = "cfg_sleep"
    /\ Goto("configure", "cfg_connect")
    /\ UNCHANGED <<self, attrs, PATH, environ, procs, dirs, colls, session, cleanupConns,
                   local, hist, runActive>>

\* Line 226: mongoengine's connect, which raises ConnectionError when no server
\* answers on the port.
ConfigureConnect ==
    /\ pc = "cfg_connect"
    /\ IF Listening(self.db_port) # {}
       THEN /\ session' = <<self.mongo_database, self.db_port>>
            /\ runActive' = TRUE
            /\ Return("configure", "cfg_connect")
       ELSE /\ Raise("configure", "ConnectionError", "cfg_connect")
            /\ UNCHANGED <<session, runActive>>
    /\ UNCHANGED <<self, attrs, PATH, environ, procs, dirs, colls, cleanupConns,
                   local, hist>>

configure ==
    \/ \E o \in Options : ConfigureResolve(o)
    \/ ConfigureLog
    \/ ConfigurePort
    \/ ConfigureName
    \/ ConfigureMkdtemp
    \/ ConfigureSpawn
    \/ ConfigurePublish
    \/ ConfigureSleep
    \/ ConfigureConnect

-----------------------------------------------------------------------------
(* stopContext(context): scope boundary. *)

\* Faulty variant: the module block tests the class flag and the class block the module flag.
ClearEnabled_swapped(block, ctx) ==
    IF block = "module"
    THEN attrs.clear_after_class /\ ctx = "module"
    ELSE attrs.clear_after_module /\ ctx = "class"

\* The condition of line 233 (block "module") and of line 246 (block "class").
ClearEnabled(block, ctx) ==
    IF block = "module"
    THEN attrs.clear_after_module /\ ctx = "module"
    ELSE attrs.clear_after_class /\ ctx = "class"

\* Line 233: reading self.clear_after_module raises AttributeError while configure
\* has not reached line 167.
StopContextModule(ctx) ==
    /\ pc = "idle"
    /\ cleanupConns < MaxConns
    /\ hist' = [NoHist EXCEPT !.context = ctx]
    /\ IF "clear_after_module" \notin attrs.names
       THEN /\ Raise("stopContext", "AttributeError", "sc_module")
            /\ local' = NoLocal
       ELSE IF ClearEnabled("module", ctx)
       THEN /\ Goto("stopContext", "sc_connect")
            /\ local' = [NoLocal EXCEPT !.block = "module"]
       ELSE /\ Goto("stopContext", "sc_class")
            /\ UNCHANGED local
    /\ UNCHANGED <<self, attrs, PATH, environ, procs, dirs, colls, session, cleanupConns,
                   runActive>>

\* Line 246.
StopContextClass ==
    /\ pc = "sc_class"
    /\ IF "clear_after_class" \notin attrs.names
       THEN /\ Raise("stopContext", "AttributeError", "sc_class")
            /\ local' = NoLocal
       ELSE IF ClearEnabled("class", hist.context)
       THEN /\ Goto("stopContext", "sc_connect")
            /\ local' = [NoLocal EXCEPT !.block = "class"]
       ELSE /\ Return("stopContext", "sc_class")
            /\ local' = NoLocal
    /\ UNCHANGED <<self, attrs, PATH, environ, procs, dirs, colls, session, cleanupConns,
                   hist, runActive>>

\* Lines 234-235 and 247-248: pymongo's Connection connects at once and raises
\* AutoReconnect (a ConnectionFailure) when no server answers on the port.
StopContextConnect ==
    /\ pc = "sc_connect"
    /\ IF Listening(self.db_port) = {}
       THEN /\ Raise("stopContext", "AutoReconnect", "sc_connect")
            /\ hist' = [hist EXCEPT !.attempted = TRUE]
            /\ local' = NoLocal
            /\ UNCHANGED cleanupConns
       ELSE /\ \E p \in Listening(self.db_port) : local' = [local EXCEPT !.server = p]
            /\ cleanupConns' = cleanupConns + 1
            /\ hist' = [hist EXCEPT !.attempted = TRUE, !.opened = TRUE]
            /\ Goto("stopContext", "sc_names")
    /\ UNCHANGED <<self, attrs, PATH, environ, procs, dirs, colls, session,
                   runActive>>

\* Lines 236 and 249: d.collection_names(), the list the loop runs over.
StopContextNames ==
    /\ pc = "sc_names"
    /\ IF procs[local.server].state # "ready"
       THEN /\ Raise("stopContext", "AutoReconnect", "sc_names")
            /\ local' = NoLocal
            /\ UNCHANGED hist
       ELSE LET names == {c \in CollNames :
                            <<self.mongo_database, c>> \in colls[local.server]}
            IN  /\ local' = [local EXCEPT !.todo = names]
                /\ hist' = [hist EXCEPT !.enumerated = names]
                /\ Goto("stopContext", "sc_drop")
    /\ UNCHANGED <<self, attrs, PATH, environ, procs, dirs, colls, session, cleanupConns,
                   runActive>>

\* Faulty variant: no except clause around the drop.
Swallowed_none(kind) == FALSE

\* Lines 240-243 and 253-256: the except clause catches OperationFailure only.
Swallowed(kind) == kind = "OperationFailure"

\* Lines 236-243 and 249-256: one turn of the loop, d.drop_collection(col).  The
\* server answers with a drop, or with an OperationFailure (always, for a system
\* collection); a server that is gone makes the driver raise AutoReconnect.
StopContextDrop ==
    /\ pc = "sc_drop"
    /\ \E col \in local.todo :
          \/ /\ procs[local.server].state = "ready"
             /\ ~IsSystem(col)
             /\ colls' = [colls EXCEPT ![local.server] = @ \ {<<self.mongo_database, col>>}]
             /\ local' = [local EXCEPT !.todo = @ \ {col}]
             /\ hist' = [hist EXCEPT !.tried = @ \cup {col}]
             /\ Goto("stopContext", "sc_drop")
          \/ /\ procs[local.server].state = "ready"
             /\ hist' = [hist EXCEPT !.tried = @ \cup {col}, !.denied = @ \cup {col}]
             /\ IF Swallowed("OperationFailure")
                THEN /\ local' = [local EXCEPT !.todo = @ \ {col}]
                     /\ Goto("stopContext", "sc_drop")
                ELSE /\ Raise("stopContext", "OperationFailure", "sc_drop")
                     /\ local' = NoLocal
             /\ UNCHANGED colls
          \/ /\ procs[local.server].state # "ready"
             /\ hist' = [hist EXCEPT !.tried = @ \cup {col}]
             /\ IF Swallowed("AutoReconnect")
                THEN /\ local' = [local EXCEPT !.todo = @ \ {col}]
                     /\ Goto("stopContext", "sc_drop")
                ELSE /\ Raise("stopContext", "AutoReconnect", "sc_drop")
                     /\ local' = NoLocal
             /\ UNCHANGED colls
    /\ UNCHANGED <<self, attrs, PATH, environ, procs, dirs, session, cleanupConns,
                   runActive>>

\* Lines 244 and 257: the loop is over, c.close().
StopContextClose ==
    /\ pc = "sc_drop"
    /\ local.todo = {}
    /\ cleanupConns' = cleanupConns - 1
    /\ local' = NoLocal
    /\ IF local.block = "module"
       THEN Goto("stopContext", "sc_class")
       ELSE Return("stopContext", "sc_close")
    /\ UNCHANGED <<self, attrs, PATH, environ, procs, dirs, colls, session,
                   hist, runActive>>

stopContext ==
    \/ \E ctx \in Contexts : StopContextModule(ctx)
    \/ StopContextClass
    \/ StopContextConnect
    \/ StopContextNames
    \/ StopContextDrop
    \/ StopContextClose

-----------------------------------------------------------------------------
(* finalize(result): stop. *)

\* Line 262.
FinalizeCheck ==
    /\ pc = "idle"
    /\ hist' = [NoHist EXCEPT
                  !.after = Ended(result),
                  !.wasRunning = self._running,
                  !.crashed = /\ self._running
                              /\ self.process # NoneInt
                              /\ procs[self.process].state = "crashed"]
    /\ runActive' = FALSE
    /\ IF ~self._running
       THEN Return("finalize", "fin_check")
       ELSE Goto("finalize", "fin_del_endpoint")
    /\ UNCHANGED <<self, attrs, PATH, environ, procs, dirs, colls, session, cleanupConns,
                   local>>

\* Faulty variant: the key is left in os.environ.
DelEnviron_kept(key, next) ==
    /\ IF environ[key] = Absent
       THEN /\ Raise("finalize", "KeyError", pc)
            /\ UNCHANGED hist
       ELSE /\ hist' = [hist EXCEPT !.steps = Append(@, "retract")]
            /\ Goto("finalize", next)
    /\ UNCHANGED <<self, attrs, PATH, environ, procs, dirs, colls, session, cleanupConns,
                   local, runActive>>

\* del os.environ[key]: KeyError when the key is not there.
DelEnviron(key, next) ==
    /\ IF environ[key] = Absent
       THEN /\ Raise("finalize", "KeyError", pc)
            /\ UNCHANGED <<environ, hist>>
       ELSE /\ environ' = [environ EXCEPT ![key] = Absent]
            /\ hist' = [hist EXCEPT !.steps = Append(@, "retract")]
            /\ Goto("finalize", next)
    /\ UNCHANGED <<self, attrs, PATH, procs, dirs, colls, session, cleanupConns,
                   local, runActive>>

\* Line 266.
FinalizeDelEndpoint ==
    /\ pc = "fin_del_endpoint"
    /\ DelEnviron(KEY_ENDPOINT, "fin_del_database")

\* Line 267.
FinalizeDelDatabase ==
    /\ pc = "fin_del_database"
    /\ DelEnviron(KEY_DATABASE, "fin_signal")

\* Faulty variant: signalling a process that has already exited raises.
SignalRaises_exited(state) == state \in {"reaped", "crashed", "exited"}

\* os.kill(pid, sig) behind process.kill() and process.terminate(): a zombie takes
\* the signal, a pid already waited for is ESRCH.
SignalRaises(state) == state = "reaped"

\* Lines 270-273: process.kill() on darwin, process.terminate() elsewhere.
FinalizeSignal ==
    /\ pc = "fin_signal"
    /\ IF self.process = NoneInt
       THEN /\ Raise("finalize", "AttributeError", "fin_signal")
            /\ UNCHANGED <<procs, hist>>
       ELSE IF SignalRaises(procs[self.process].state)
       THEN /\ Raise("finalize", "OSError", "fin_signal")
            /\ UNCHANGED <<procs, hist>>
       ELSE /\ procs' = [procs EXCEPT ![self.process].state =
                            IF @ \in {"starting", "ready"} THEN "terminating" ELSE @]
            /\ hist' = [hist EXCEPT !.steps = Append(@, "signal")]
            /\ Goto("finalize", "fin_wait")
    /\ UNCHANGED <<self, attrs, PATH, environ, dirs, colls, session, cleanupConns,
                   local, runActive>>

\* Line 274: process.wait() blocks until the process has exited, and reaps it.
FinalizeWait ==
    /\ pc = "fin_wait"
    /\ procs[self.process].state \in {"crashed", "exited"}
    /\ procs' = [procs EXCEPT ![self.process].state = "reaped"]
    /\ hist' = [hist EXCEPT !.steps = Append(@, "wait")]
    /\ Goto("finalize", "fin_rmtree")
    /\ UNCHANGED <<self, attrs, PATH, environ, dirs, colls, session, cleanupConns,
                   local, runActive>>

\* Faulty variant: the tree is left in place.
rmtree_kept(ds, path) == ds

\* shutil.rmtree(path), when it does not raise.
rmtree(ds, path) == [ds EXCEPT ![path] = "removed"]

\* Line 277: shutil.rmtree(self.db_path) removes the tree, or raises OSError (it
\* always does when the directory is already gone).
FinalizeRmtree ==
    /\ pc = "fin_rmtree"
    /\ hist' = [hist EXCEPT !.steps = Append(@, "rmtree")]
    /\ \/ /\ dirs[self.db_path] = "exists"
          /\ dirs' = rmtree(dirs, self.db_path)
          /\ Goto("finalize", "fin_done")
       \/ /\ Raise("finalize", "OSError", "fin_rmtree")
          /\ UNCHANGED dirs
    /\ UNCHANGED <<self, attrs, PATH, environ, procs, colls, session, cleanupConns,
                   local, runActive>>

\* Line 278.
FinalizeDone ==
    /\ pc = "fin_done"
    /\ self' = [self EXCEPT !._running = FALSE]
    /\ Return("finalize", "fin_done")
    /\ UNCHANGED <<attrs, PATH, environ, procs, dirs, colls, session, cleanupConns,
                   local, hist, runActive>>

finalize ==
    \/ FinalizeCheck
    \/ FinalizeDelEndpoint
    \/ FinalizeDelDatabase
    \/ FinalizeSignal
    \/ FinalizeWait
    \/ FinalizeRmtree
    \/ FinalizeDone

-----------------------------------------------------------------------------
(* The specification. *)

Environment ==
    \/ \E p \in DOMAIN procs : ServerReady(p)
    \/ \E p \in DOMAIN procs : Crash(p)
    \/ \E p \in DOMAIN procs : ProcExit(p)
    \/ \E cs \in SUBSET CollNames : TestCode(cs)

Next ==
    \/ configure
    \/ stopContext
    \/ finalize
    \/ Environment

Spec == Init /\ [][Next]_vars

-----------------------------------------------------------------------------
(* Start and stop alone, start being called again on the same plugin, with    *)
(* servers that write to their standard output.                               *)

ConfigureResolveAgain(o) ==
    /\ Len(dirs) < MaxRestarts
    /\ Resolve(o)

configureAgain ==
    \/ \E o \in Options : ConfigureResolveAgain(o)
    \/ ConfigureLog
    \/ ConfigurePort
    \/ ConfigureName
    \/ ConfigureMkdtemp
    \/ ConfigureSpawn
    \/ ConfigurePublish
    \/ ConfigureSleep
    \/ ConfigureConnect

Servers ==
    \/ \E p \in DOMAIN procs : ServerReady(p)
    \/ \E p \in DOMAIN procs : Crash(p)
    \/ \E p \in DOMAIN procs : ProcExit(p)
    \/ \E p \in DOMAIN procs : ServerLog(p)

NextLifecycle ==
    \/ configureAgain
    \/ finalize
    \/ Servers

SpecLifecycle == Init /\ [][NextLifecycle]_vars

-----------------------------------------------------------------------------
(* The name generator alone (lines 170-172), on a larger alphabet.            *)

\* configure has reached line 171: the binary is resolved, the log path opened,
\* the port and the flags set.
InitName ==
    /\ PATH = <<"/a", "/b", "/c">>
    /\ \E port \in AutoPorts \cup {UserPort} :
          self = [mongodb_bin |-> scan_path(PATH), db_port |-> port, db_path |-> NoneInt,
                  process |-> NoneInt, _running |-> FALSE, _enabled |-> TRUE,
                  enabled |-> TRUE, mongo_database |-> None]
    /\ \E cam, cac \in BOOLEAN :
          attrs = [names |-> {"db_log_path", "db_prealloc", "db_scripting",
                              "clear_after_module", "clear_after_class"},
                   clear_after_module |-> cam, clear_after_class |-> cac]
    /\ environ = [k \in EnvKeys |-> Absent]
    /\ procs = << >>
    /\ dirs = << >>
    /\ colls = << >>
    /\ session = None
    /\ cleanupConns = 0
    /\ pc = "cfg_name"
    /\ local = NoLocal
    /\ result = [op |-> "configure", kind |-> "pending", at |-> "none"]
    /\ hist = [NoHist EXCEPT !.mongoengine = TRUE]
    /\ runActive = FALSE

NextName == ConfigureNameFrom(1..SampleChars, SampleLen)

SpecName == InitName /\ [][NextName]_vars

-----------------------------------------------------------------------------
(* Properties. *)

Idle(op) == pc = "idle" /\ result.op = op

\* The process and the data directory of the last start.
ProcessReaped == procs[self.process].state = "reaped"

DirRemoved == dirs[self.db_path] = "removed"

\* C1: a start that completed, followed immediately by a stop, ends with the
\* spawned process signalled and reaped and with the data directory removed; the
\* directory stays only when shutil.rmtree itself raised, which stop passes on.
C1_StartStopLeavesNothing ==
    (Idle("finalize") /\ hist.after = "started") =>
        /\ ProcessReaped
        /\ DirRemoved \/ (result.kind = "OSError" /\ result.at = "fin_rmtree")
        /\ result.kind = "returned" => DirRemoved

C1_Witness ==
    /\ Idle("finalize")
    /\ hist.after = "started"
    /\ result.kind = "returned"
    /\ ProcessReaped
    /\ DirRemoved

\* C2: when start fails after the spawn succeeded, the spawned process is no
\* longer alive and its data directory is gone by the time start has raised.
C2_FailedStartCleansUp ==
    (Idle("configure") /\ result.kind # "returned" /\ hist.spawned) =>
        /\ ~Alive(self.process)
        /\ dirs[self.db_path] # "exists"

\* C3: between two calls, the connection info is published if and only if a start
\* has completed and no stop has begun since.
C3_PublishedIffActive ==
    pc = "idle" => (Published <=> runActive)

\* C4: the second of two consecutive stop calls is a no-op: it returns at once,
\* raising nothing.
C4_SecondStopNoOp ==
    (result.op = "finalize" /\ hist.after = "stopped") =>
        (pc = "idle" /\ result.kind = "returned" /\ result.at = "fin_check")

\* C5: after any stop on a running run the process has been reaped, the removal
\* of the data directory has been attempted and the run is not marked running.
C5_StopBestEffort ==
    (Idle("finalize") /\ hist.wasRunning) =>
        /\ ~self._running
        /\ ProcessReaped
        /\ \E i \in DOMAIN hist.steps : hist.steps[i] = "rmtree"

\* C6: a stop on a run whose server has exited on its own does not block in
\* process.wait(), raises nothing for the dead process, reaches shutil.rmtree,
\* and leaves the data directory removed unless rmtree itself raised.
C6_StopAfterCrash ==
    /\ (pc = "fin_wait" /\ hist.crashed) => ENABLED FinalizeWait
    /\ (Idle("finalize") /\ hist.crashed) =>
          /\ ProcessReaped
          /\ \E i \in DOMAIN hist.steps : hist.steps[i] = "rmtree"
          /\ result.kind = "returned" \/ (result.kind = "OSError" /\ result.at = "fin_rmtree")
          /\ result.kind = "returned" => DirRemoved

C6_Witness ==
    /\ Idle("finalize")
    /\ hist.crashed
    /\ result.kind = "returned"
    /\ DirRemoved

\* C7: with the mechanism enabled and an explicit binary path, a start that
\* returns has spawned the server with that path and the run is running when the
\* path exists, and start raises the configuration error when it does not.
C7_ExplicitBinaryResolved ==
    (Idle("configure") /\ hist.mongoengine /\ hist.mongodb_bin # None) =>
        IF hist.mongodb_bin \in ExistingFiles
        THEN result.kind = "returned" =>
                (hist.spawned /\ self._running /\ self.mongodb_bin = hist.mongodb_bin)
        ELSE result.kind = "AssertionError"

\* C8: a scope-boundary call tries to connect exactly when the flag of its scope
\* kind is set, and opens a connection or drops a collection only then.
C8_ConnectsIffFlag ==
    /\ hist.attempted =>
          \/ hist.context = "module" /\ attrs.clear_after_module
          \/ hist.context = "class" /\ attrs.clear_after_class
    /\ (hist.opened \/ hist.tried # {}) => hist.attempted
    /\ Idle("stopContext") =>
          (hist.attempted <=>
              \/ hist.context = "module" /\ attrs.clear_after_module
              \/ hist.context = "class" /\ attrs.clear_after_class)

C8_Witness ==
    /\ Idle("stopContext")
    /\ hist.context = "class"
    /\ hist.attempted
    /\ attrs.clear_after_class
    /\ ~attrs.clear_after_module

\* The collections the cleanup's server holds in the logical database.
Remaining == {c \in CollNames : <<self.mongo_database, c>> \in colls[local.server]}

\* C9: a cleanup that has enumerated the collections tries a drop on each of
\* them; a denied drop does not end the loop; when the loop is over exactly the
\* denied collections are left; and the call raises only when the server is gone.
C9_DropsEveryCollection ==
    /\ [][(pc = "sc_drop" /\ pc' # "sc_drop" /\ result'.kind \in {"pending", "returned"}) =>
            /\ hist.tried = hist.enumerated
            /\ procs[local.server].state = "ready" => Remaining = hist.denied]_vars
    /\ [][(pc \in {"sc_names", "sc_drop"} /\ pc' = "idle" /\ result'.kind # "returned") =>
            /\ result'.kind = "AutoReconnect"
            /\ procs[local.server].state # "ready"]_vars
    /\ []((Idle("stopContext") /\ hist.opened /\ result.kind = "returned") =>
            hist.tried = hist.enumerated)

C9_Witness ==
    /\ Idle("stopContext")
    /\ result.kind = "returned"
    /\ hist.enumerated = CollNames
    /\ hist.tried = CollNames
    /\ hist.denied = {c \in CollNames : IsSystem(c)}

\* C10: no scope-boundary call leaves a cleanup connection open.
C10_CleanupConnectionClosed ==
    pc = "idle" => cleanupConns = 0

\* C11: a scope-boundary call on a plugin no start of which has completed
\* returns, and has not tried to connect.
C11_ScopeBoundaryNoOpBeforeStart ==
    (Idle("stopContext") /\ session = None) =>
        (result.kind = "returned" /\ ~hist.attempted)

\* C12: when start has failed with the error of the spawn, the data directory
\* made for the run is no longer on disk.
C12_SpawnFailureRemovesDir ==
    (Idle("configure") /\ result.kind = "OSError" /\ result.at = "cfg_spawn") =>
        dirs[self.db_path] # "exists"

\* The errors of configuration and of the port bind.
ConfigErrors == {"AssertionError", "socket.error"}

\* C13: a start that fails with a configuration error or a bind failure has
\* gone through the resolution, the log path and the port only, and none of its
\* steps spawned a process, made a directory, published a key or marked the run
\* running; on a plugin with no earlier run there is then no process, no
\* directory, no published key, and the run is not marked running.
C13_ConfigErrorBeforeAnyEffect ==
    /\ [][(result'.op = "configure" /\ result'.kind \in ConfigErrors) =>
            pc \in {"idle", "cfg_log", "cfg_port"}]_vars
    /\ [][(result'.op = "configure" /\ pc \in {"idle", "cfg_log", "cfg_port"}) =>
            /\ Len(procs') = Len(procs)
            /\ dirs' = dirs
            /\ environ' = environ
            /\ self'._running = self._running]_vars
    /\ []((Idle("configure") /\ result.kind \in ConfigErrors) =>
            /\ ~hist.spawned
            /\ dirs = << >> => (procs = << >> /\ ~Published /\ ~self._running))

C13_Witness ==
    /\ Idle("configure")
    /\ result.kind = "socket.error"
    /\ result.at = "cfg_port"
    /\ procs = << >>
    /\ dirs = << >>
    /\ ~Published
    /\ ~self._running

\* C14: no live server is blocked writing to its full output pipe.
C14_ChildNeverBlockedOnOutput ==
    \A p \in DOMAIN procs : ~(Alive(p) /\ procs[p].stdout = "PIPE_FULL")

\* C15: at most one spawned process is not yet reaped, and at most one data
\* directory handed to a spawned process exists.
C15_OneProcessOneDirectory ==
    /\ Cardinality({p \in DOMAIN procs : procs[p].state # "reaped"}) <= 1
    /\ Cardinality({d \in DOMAIN dirs :
                       /\ dirs[d] = "exists"
                       /\ \E p \in DOMAIN procs : procs[p].dbpath = d}) <= 1

\* C19: every string of the name's length over the alphabet can be the name the
\* generator gives, so that the names are at least (alphabet size)^(length).
C19_EveryNamePossible ==
    pc = "cfg_name" =>
        /\ \A s \in [1..SampleLen -> 1..SampleChars] :
              ENABLED (NextName /\ self'.mongo_database = s)
        /\ Cardinality(random_sample(1..SampleChars, SampleLen))
              >= Cardinality([1..SampleLen -> 1..SampleChars])

\* C16: in start the coordinates are published only once the wait for the
\* server (the sleep of line 223) is over, and no connection is made before that.
C16_PublishedAfterAwaitReady ==
    /\ pc = "cfg_sleep" => ~Published
    /\ pc \in {"cfg_log", "cfg_port", "cfg_name", "cfg_mkdtemp", "cfg_spawn",
                "cfg_publish", "cfg_sleep"} => session = None

\* The teardown of a stop on a running run, in order.
Teardown == <<"retract", "retract", "signal", "wait", "rmtree">>

\* C17: the steps a stop has taken are a prefix of: retract both keys, signal,
\* wait, remove the directory; the directory is removed only when the process
\* started on it has been waited for; and the run is marked not running by the
\* last statement only, with the keys retracted, the process reaped and the
\* directory removed.
C17_TeardownOrder ==
    /\ [](/\ Len(hist.steps) <= Len(Teardown)
          /\ hist.steps = SubSeq(Teardown, 1, Len(hist.steps)))
    /\ [][(Len(dirs') = Len(dirs) /\ dirs' # dirs) =>
            /\ pc = "fin_rmtree"
            /\ hist.steps = SubSeq(Teardown, 1, 4)
            /\ dirs'[self.db_path] = "removed"
            /\ procs[self.process].state = "reaped"
            /\ \A p \in DOMAIN procs : procs[p].dbpath = self.db_path => ~Alive(p)]_vars
    /\ [][(self._running /\ ~self'._running) =>
            /\ pc = "fin_done"
            /\ hist.steps = Teardown
            /\ \A k \in EnvKeys : environ[k] = Absent
            /\ ProcessReaped
            /\ DirRemoved]_vars

C17_Witness ==
    /\ Idle("finalize")
    /\ hist.wasRunning
    /\ result.kind = "returned"
    /\ hist.steps = Teardown
    /\ ~self._running
    /\ ~Published

\* C18: a cleanup that has returned without an error let pass only denied drops
\* of system collections (stopContext keeps no record of a denied drop: a call
\* that returns has reported nothing); and an error of the connection or of the
\* enumeration ends the call with that error.
C18_OnlySystemDropsSwallowed ==
    /\ (Idle("stopContext") /\ result.kind = "returned") =>
          \A col \in hist.denied : IsSystem(col)
    /\ (Idle("stopContext") /\ result.at \in {"sc_connect", "sc_names"}) =>
          result.kind = "AutoReconnect"

\* C20: between two calls the run is marked running exactly when both keys are
\* published, the process handle is a spawned process not yet reaped, and the
\* data directory exists.
C20_RunningFlagConsistent ==
    pc = "idle" =>
        (self._running <=>
            /\ Published
            /\ self.process # NoneInt
            /\ procs[self.process].state # "reaped"
            /\ self.db_path # NoneInt
            /\ dirs[self.db_path] = "exists")

====
